---- MODULE Spec2Model ----
(***************************************************************************)
(* The layer-graph scheduler of cuda-convnet (src/src/layer.cu): graph     *)
(* construction from an ordered declaration list, the dependency-counted   *)
(* forward pass, the recursive backward pass with its first-writer rule,   *)
(* and the counter resets at the pass boundaries.                          *)
(*                                                                         *)
(* Layers are numbered 1..n in declaration order (the code's index k is    *)
(* the model's k+1).  The program is single-threaded: `stack` is its call  *)
(* stack, one frame per loop that is in progress, and every action is one  *)
(* iteration of the loop on top of the stack, with the virtual call that   *)
(* the iteration makes.                                                    *)
(***************************************************************************)
EXTENDS Integers, Sequences, FiniteSets, Bags, TLC

(***************************************************************************)
(* Bounds of the model.                                                    *)
(***************************************************************************)
MaxLayers == 3      \* longest declaration list of the exhaustive family
MaxInputs == 2      \* longest "inputs" list of one declaration
MaxHeads  == 3      \* most cost layers on the shared layer of a multi-cost net
MaxTerms  == 3      \* LayerGraph::bprop is not called again once a gradient
                    \* buffer has accumulated more terms than this

(***************************************************************************)
(* Layer declarations: the "type" tag, the "inputs" list and, for a cost,  *)
(* whether "coeff" is zero (0) or not (1).                                 *)
(***************************************************************************)
Decl(t, ins, c) == [type |-> t, inputs |-> ins, coeff |-> c]

Coeffs == {0, 1}

\* Sequences over S of length lo..hi.
SeqsOf(S, lo, hi) == UNION {[1..n -> S] : n \in lo..hi}

\* The declarations position i may hold.  Its inputs are layers already
\* built (getLayer, line 35).  A conv layer has one input (assert, line
\* 481) and so has a softmax layer (assert, line 551); a pool layer reads
\* _prev[0] and a logreg cost _prev[0] and _prev[1], and they are given that
\* many.  A data layer is given at most one input: the code never reads it.
\* "bogus" is a type tag the constructor does not know.
DeclsAt(i) ==
       {Decl("data", ins, 0) : ins \in SeqsOf(1..(i-1), 0, 1)}
  \cup {Decl("fc", ins, 0) : ins \in SeqsOf(1..(i-1), 0, MaxInputs)}
  \cup {Decl("conv", ins, 0) : ins \in SeqsOf(1..(i-1), 1, 1)}
  \cup {Decl("softmax", ins, 0) : ins \in SeqsOf(1..(i-1), 1, 1)}
  \cup {Decl("pool", ins, 0) : ins \in SeqsOf(1..(i-1), 1, 1)}
  \cup {Decl("cost.logreg", ins, c) :
            ins \in SeqsOf(1..(i-1), 2, 2), c \in Coeffs}
  \cup {Decl("bogus", <<>>, 0)}

\* One data layer, one fully-connected layer on it, and k logreg costs that
\* all read that layer's output (labels from the data layer).
MultiCostNets ==
  UNION {{<<Decl("data", <<>>, 0), Decl("fc", <<1>>, 0)>> \o
              [j \in 1..k |-> Decl("cost.logreg", <<1, 2>>, cs[j])] :
            cs \in [1..k -> Coeffs]} : k \in 2..MaxHeads}

\* labels, images, conv, pool, fc, softmax, logreg cost.
ConvNet ==
  <<Decl("data", <<>>, 0), Decl("data", <<>>, 0), Decl("conv", <<2>>, 0),
    Decl("pool", <<3>>, 0), Decl("fc", <<4>>, 0), Decl("softmax", <<5>>, 0),
    Decl("cost.logreg", <<1, 6>>, 1)>>

\* Diamond fan-in: two data layers feed one layer, which feeds two softmax
\* layers, each with its own cost.
DiamondNets ==
  {<<Decl("data", <<>>, 0), Decl("data", <<>>, 0), Decl("data", <<>>, 0),
     Decl("fc", <<2, 3>>, 0), Decl("softmax", <<4>>, 0),
     Decl("softmax", <<4>>, 0), Decl("cost.logreg", <<1, 5>>, c1),
     Decl("cost.logreg", <<1, 6>>, c2)>> : c1 \in Coeffs, c2 \in Coeffs}

\* The convolutional net with an unknown tag in the middle of the list.
UnknownTypeNet == [ConvNet EXCEPT ![4] = Decl("bogus", <<>>, 0)]

\* A dead-end branch: the layer the cost reads also feeds a layer that
\* nothing reads.
DeadEndNet ==
  <<Decl("data", <<>>, 0), Decl("fc", <<1>>, 0), Decl("fc", <<2>>, 0),
    Decl("cost.logreg", <<1, 2>>, 1)>>

\* The larger nets a run may start from; the others are every declaration
\* list of at most MaxLayers layers, written by Declare.
ReferenceNets ==
  MultiCostNets \cup {ConvNet, UnknownTypeNet, DeadEndNet} \cup DiamondNets

(***************************************************************************)
(* The state.                                                              *)
(***************************************************************************)
VARIABLES
  decls,        \* the declaration list handed to the constructor
  built,        \* "no": not constructed, "yes": the graph exists,
                \* "failed": the constructor threw
  layers,       \* _layers: per layer its type, _prev, _next,
                \* _numGradProducersNext, _propagateGrad, _gradProducer, _coeff
  dataLayers,   \* _dataLayers
  costs,        \* _costs
  rcvdF,        \* _rcvdFInputs of every layer
  rcvdB,        \* _rcvdBInputs of every layer
  actGrads,     \* _actGrads of every layer: the bag of gradient terms it holds
  saveBwdActs,  \* Layer::saveBwdActs
  data,         \* _data: the number of matrices of the bound dataset, -1: NULL
  stack,        \* the call stack
  event,        \* the last thing LayerGraph did, as its caller sees it
  fpropLog,     \* layers whose _fprop ran since the last reset, in order
  seedLog,      \* data layers entered by LayerGraph::fprop since the last reset
  bpropLog,     \* _bprop runs since the last reset: layer and the buffer it got
  callLog       \* bprop() calls made by cost layers since the last reset

\* Gradient checking and the numbers it reads.
VARIABLES
  checkingGrads,  \* LayerGraph::_checkingGrads
  numTests,       \* LayerGraph::_numTests
  numFailures,    \* LayerGraph::_numFailures
  baseErr,        \* LayerGraph::_baseErr
  err,            \* Cost::_err of every layer (<<>> for a layer without one)
  weights,        \* the Weights containers of every layer: the matrix
                  \* getW() and the matrix getGrads(), each a sequence of
                  \* scalars in the order checkGradientsW visits them
  partialSum,     \* ConvLayer::_partialSum
  numGrads,       \* checkGradientsW's local numGrads
  weightsCPU,     \* checkGradientsW's local weightsCPU
  checkLog,       \* what the running checkGradients has done so far
  seen            \* the numeric computation of the step just taken, with its operands

gc == <<checkingGrads, numTests, numFailures, baseErr, err, weights, partialSum,
        numGrads, weightsCPU, checkLog, seen>>

vars == <<decls, built, layers, dataLayers, costs, rcvdF, rcvdB, actGrads,
          saveBwdActs, data, stack, event, fpropLog, seedLog, bpropLog,
          callLog, gc>>

(***************************************************************************)
(* Construction.                                                           *)
(***************************************************************************)
\* A slip: one more tag is taken for a known one.
KnownTypesLax == {"fc", "conv", "pool", "data", "softmax", "cost.logreg", "bogus"}

\* The tags the chain of comparisons of LayerGraph::LayerGraph knows.
KnownTypes == {"fc", "conv", "pool", "data", "softmax", "cost.logreg"}

\* The propagateGrad argument each layer class hands to Layer::Layer.
PropagateGrad(d) == d.type # "data"

\* The gradProducer argument, and Cost::Cost's _gradProducer = _coeff != 0.
GradProducer(d) ==
  CASE d.type = "data" -> FALSE
    [] d.type = "cost.logreg" -> d.coeff # 0
    [] OTHER -> TRUE

\* Layer::Layer: addPrev of every declared input, no successor yet.
NewLayer(d) ==
  [type |-> d.type, prev |-> d.inputs, next |-> <<>>,
   numGradProducersNext |-> 0, propagateGrad |-> PropagateGrad(d),
   gradProducer |-> GradProducer(d), coeff |-> d.coeff]

\* A plausible slip: a successor already listed is not listed again.
AddNextOnce(ls, p, l) ==
  IF \E k \in 1..Len(ls[p].next) : ls[p].next[k] = l THEN ls
  ELSE [ls EXCEPT ![p].next = Append(@, l),
                  ![p].numGradProducersNext =
                      @ + (IF ls[l].gradProducer THEN 1 ELSE 0)]

\* Layer::addNext, called on layer p with successor l.
AddNext(ls, p, l) ==
  [ls EXCEPT ![p].next = Append(@, l),
             ![p].numGradProducersNext =
                 @ + (IF ls[l].gradProducer THEN 1 ELSE 0)]

\* "Connect the forward links in the graph": the loops over i and j, from
\* iteration (i, j) on.
RECURSIVE ConnectForward(_, _, _)
ConnectForward(ls, i, j) ==
  IF i > Len(ls) THEN ls
  ELSE IF j > Len(ls[i].prev) THEN ConnectForward(ls, i + 1, 1)
  ELSE ConnectForward(AddNext(ls, ls[i].prev[j], i), i, j + 1)

\* The layers of a declaration list, wired.
BuildLayers(ds) == ConnectForward([i \in 1..Len(ds) |-> NewLayer(ds[i])], 1, 1)

\* The indices of the declarations of type t, in declaration order.
RECURSIVE Collect(_, _, _)
Collect(ds, t, i) ==
  IF i > Len(ds) THEN <<>>
  ELSE (IF ds[i].type = t THEN <<i>> ELSE <<>>) \o Collect(ds, t, i + 1)

\* A slip: the backward counter is left as it is.
ResetForwardOnly(c) == [c EXCEPT !.f = [i \in DOMAIN c.f |-> 0]]

\* LayerGraph::reset over Layer::reset: both counters of every layer.
Reset(c) == [f |-> [i \in DOMAIN c.f |-> 0], b |-> [i \in DOMAIN c.b |-> 0]]

NoLog == <<>>

\* Nothing has been checked and no number has been computed.
NoCheck ==
  /\ checkingGrads = FALSE
  /\ numTests = 0
  /\ numFailures = 0
  /\ baseErr = 0
  /\ numGrads = <<>>
  /\ weightsCPU = <<>>
  /\ checkLog = NoLog
  /\ seen = [kind |-> "none"]

Init ==
  /\ NoCheck
  /\ err = <<>>
  /\ weights = <<>>
  /\ partialSum = 0
  /\ decls \in {<<>>} \cup ReferenceNets
  /\ built = "no"
  /\ layers = <<>>
  /\ dataLayers = <<>>
  /\ costs = <<>>
  /\ rcvdF = <<>>
  /\ rcvdB = <<>>
  /\ actGrads = <<>>
  /\ saveBwdActs = FALSE
  /\ data = -1
  /\ stack = <<>>
  /\ event = "none"
  /\ fpropLog = NoLog
  /\ seedLog = NoLog
  /\ bpropLog = NoLog
  /\ callLog = NoLog

\* The caller writes one more declaration of the list it will hand to the
\* constructor; nothing follows an unknown type tag.
Declare ==
  /\ built = "no"
  /\ decls \notin ReferenceNets
  /\ Len(decls) < MaxLayers
  /\ decls # <<>> => decls[Len(decls)].type \in KnownTypes
  /\ \E d \in DeclsAt(Len(decls) + 1) : decls' = Append(decls, d)
  /\ UNCHANGED <<built, layers, dataLayers, costs, rcvdF, rcvdB, actGrads,
                 saveBwdActs, data, stack, event, fpropLog, seedLog, bpropLog,
                 callLog>>

\* What an uninitialised counter may hold: Layer::Layer sets neither.
Uninit == {0, 1}

\* LayerGraph::LayerGraph on a list of known types.
Construct ==
  /\ built = "no"
  /\ \A i \in 1..Len(decls) : decls[i].type \in KnownTypes
  /\ \E jf \in Uninit, jb \in Uninit :
        LET n == Len(decls)
            c == Reset([f |-> [i \in 1..n |-> jf], b |-> [i \in 1..n |-> jb]])
        IN /\ rcvdF' = c.f
           /\ rcvdB' = c.b
  /\ built' = "yes"
  /\ layers' = BuildLayers(decls)
  /\ dataLayers' = Collect(decls, "data", 1)
  /\ costs' = Collect(decls, "cost.logreg", 1)
  /\ actGrads' = [i \in 1..Len(decls) |-> EmptyBag]
  /\ event' = "constructed"
  /\ UNCHANGED <<decls, saveBwdActs, data, stack, fpropLog, seedLog,
                 bpropLog, callLog>>

\* LayerGraph::LayerGraph on a list with an unknown type: it throws.
ConstructThrow ==
  /\ built = "no"
  /\ \E i \in 1..Len(decls) : decls[i].type \notin KnownTypes
  /\ built' = "failed"
  /\ event' = "thrown"
  /\ UNCHANGED <<decls, layers, dataLayers, costs, rcvdF, rcvdB, actGrads,
                 saveBwdActs, data, stack, fpropLog, seedLog, bpropLog,
                 callLog>>

(***************************************************************************)
(* The call stack.  A frame is a loop in progress: op names the function,  *)
(* layer the object it runs on (0: the graph) and i the next iteration.    *)
(* A "bprop()" frame is a call of layer->bprop() that is about to start,   *)
(* made by layer i (0: by LayerGraph::bprop).                              *)
(***************************************************************************)
Frame(o, l, k) == [op |-> o, layer |-> l, i |-> k]

Idle == built = "yes" /\ stack = <<>>
Running(o) == stack # <<>> /\ stack[Len(stack)].op = o
Top == stack[Len(stack)]
Pop == SubSeq(stack, 1, Len(stack) - 1)
\* The top frame moved on to its next iteration.
Advance == Append(Pop, [Top EXCEPT !.i = @ + 1])

NumLayers == Len(layers)
Zeros == [i \in 1..NumLayers |-> 0]

\* The dataset sizes LayerGraph::fprop handles with defined behaviour: its
\* loop reads _dataLayers[i] for every i below data.getData().size().
DataSizes == 0..Len(dataLayers)

(***************************************************************************)
(* The forward pass.                                                       *)
(***************************************************************************)

\* A slip: the layer computes on its first input.
FpropReadyFirst(received, l) == received = 1

\* A slip: the layer computes on every input.
FpropReadyAny(received, l) == received >= 1

\* Layer::fprop(): _rcvdFInputs == _prev.size().
FpropReady(received, l) == received = Len(layers[l].prev)

\* LayerGraph::fprop(Data&), down to its loop: setData, reset.
GraphFprop(n) ==
  /\ Idle
  /\ data' = n
  /\ LET c == Reset([f |-> rcvdF, b |-> rcvdB])
     IN rcvdF' = c.f /\ rcvdB' = c.b
  /\ fpropLog' = NoLog /\ seedLog' = NoLog /\ bpropLog' = NoLog
  /\ callLog' = NoLog
  /\ stack' = <<Frame("LayerGraph::fprop", 0, 1)>>
  /\ event' = "fprop seeding"
  /\ UNCHANGED <<decls, built, layers, dataLayers, costs, actGrads, saveBwdActs>>

\* The bound of the loop of LayerGraph::fprop: data.getData().size().
SeedCount == data

\* One iteration of the loop of LayerGraph::fprop: DataLayer::fprop(NVMatrixV&)
\* on _dataLayers[i], which runs _fprop and then fpropNext.
DataLayerFprop ==
  /\ Running("LayerGraph::fprop")
  /\ Top.i <= SeedCount
  /\ LET d == dataLayers[Top.i]
     IN /\ fpropLog' = Append(fpropLog, d)
        /\ seedLog' = Append(seedLog, d)
        /\ stack' = Append(Advance, Frame("fpropNext", d, 1))
  /\ UNCHANGED <<decls, built, layers, dataLayers, costs, rcvdF, rcvdB,
                 actGrads, saveBwdActs, data, event, bpropLog, callLog>>

\* LayerGraph::fprop returns.
GraphFpropReturn ==
  /\ Running("LayerGraph::fprop")
  /\ Top.i > SeedCount
  /\ stack' = Pop
  /\ event' = "fprop returned"
  /\ UNCHANGED <<decls, built, layers, dataLayers, costs, rcvdF, rcvdB,
                 actGrads, saveBwdActs, data, fpropLog, seedLog,
                 bpropLog, callLog>>

\* One iteration of Layer::fpropNext on a successor that is no data layer:
\* Layer::fprop() counts the call and, once every input has arrived,
\* Layer::fprop(NVMatrixV&) runs _fprop and then the layer's own fpropNext.
LayerFprop ==
  /\ Running("fpropNext")
  /\ Top.i <= Len(layers[Top.layer].next)
  /\ LET l == layers[Top.layer].next[Top.i]
         received == rcvdF[l] + 1
     IN /\ layers[l].type # "data"
        /\ IF FpropReady(received, l)
           THEN /\ rcvdF' = [rcvdF EXCEPT ![l] = Len(layers[l].prev)]
                /\ fpropLog' = Append(fpropLog, l)
                /\ stack' = Append(Advance, Frame("fpropNext", l, 1))
           ELSE /\ rcvdF' = [rcvdF EXCEPT ![l] = received]
                /\ fpropLog' = fpropLog
                /\ stack' = Advance
  /\ UNCHANGED <<decls, built, layers, dataLayers, costs, rcvdB, actGrads,
                 saveBwdActs, data, event, seedLog, bpropLog, callLog>>

\* A slip: the call is counted as Layer::fprop() counts it, then thrown.
CountedThenThrown(received) == received + 1

\* The counter of a data layer after DataLayer::fprop(), which replaces
\* Layer::fprop(): the throw is its only statement.
DataLayerFpropCount(received) == received

\* One iteration of Layer::fpropNext on a successor that is a data layer:
\* DataLayer::fprop() throws, and the exception leaves LayerGraph::fprop.
DataLayerFpropThrow ==
  /\ Running("fpropNext")
  /\ Top.i <= Len(layers[Top.layer].next)
  /\ layers[layers[Top.layer].next[Top.i]].type = "data"
  /\ rcvdF' = [rcvdF EXCEPT ![layers[Top.layer].next[Top.i]] =
                               DataLayerFpropCount(@)]
  /\ stack' = <<>>
  /\ event' = "thrown"
  /\ UNCHANGED <<decls, built, layers, dataLayers, costs, rcvdB,
                 actGrads, saveBwdActs, data, fpropLog, seedLog,
                 bpropLog, callLog>>

\* Layer::fpropNext returns.
FpropNextReturn ==
  /\ Running("fpropNext")
  /\ Top.i > Len(layers[Top.layer].next)
  /\ stack' = Pop
  /\ UNCHANGED <<decls, built, layers, dataLayers, costs, rcvdF, rcvdB,
                 actGrads, saveBwdActs, data, event, fpropLog, seedLog,
                 bpropLog, callLog>>

(***************************************************************************)
(* The backward pass.  A gradient buffer is the bag of the terms summed in *)
(* it: Term(l, j, a) is what layer l computes for its j-th input, and      *)
(* Term(l, 0, a) is the buffer of l itself after the neuron's              *)
(* computeInputGrads rewrote it in place; a is 0 for a term of the current *)
(* backward pass and 1 for a term an earlier pass left behind.             *)
(***************************************************************************)
Term(l, j, a) == [from |-> l, slot |-> j, age |-> a]

\* The same buffer seen from the next backward pass: every term is old.
Aged(buf) ==
  LET old(t) == [t EXCEPT !.age = 1]
      count(t) == IF t \in DOMAIN buf THEN buf[t] ELSE 0
  IN [u \in {old(t) : t \in DOMAIN buf} |->
        count(u) + count([u EXCEPT !.age = 0])]

\* The first-writer rule every _bprop applies to its input's _actGrads:
\* overwrite when getRcvdBInputs() == 0, else accumulate.
WriteGrad(buf, received, t) ==
  IF received = 0 THEN SetToBag({t}) ELSE buf (+) SetToBag({t})

\* Layer::truncActGrads.
TruncActGrads(buf) == IF ~saveBwdActs THEN EmptyBag ELSE buf

\* A slip: the test of Layer::bprop() as "at least".
BpropReadyAtLeast(received, l) == received >= layers[l].numGradProducersNext

\* Layer::bprop(): _rcvdBInputs == _numGradProducersNext.
BpropReady(received, l) == received = layers[l].numGradProducersNext

\* actGrads after layer l wrote its term for its j-th input p.
Written(ag, l, j) ==
  LET p == layers[l].prev[j]
  IN [ag EXCEPT ![p] = WriteGrad(@, rcvdB[p], Term(l, j, 0))]

\* Static method Layer::setSaveBwdActs.
SetSaveBwdActs(b) ==
  /\ Idle
  /\ saveBwdActs # b
  /\ saveBwdActs' = b
  /\ UNCHANGED <<decls, built, layers, dataLayers, costs, rcvdF, rcvdB,
                 actGrads, data, stack, event, fpropLog, seedLog,
                 bpropLog, callLog>>

\* LayerGraph::bprop is called.
GraphBprop ==
  /\ Idle
  /\ \A l \in 1..NumLayers : BagCardinality(actGrads[l]) <= MaxTerms
  /\ actGrads' = [l \in 1..NumLayers |-> Aged(actGrads[l])]
  /\ stack' = <<Frame("LayerGraph::bprop", 0, 1)>>
  /\ event' = "bprop running"
  /\ UNCHANGED <<decls, built, layers, dataLayers, costs, rcvdF, rcvdB,
                 saveBwdActs, data, fpropLog, seedLog, bpropLog, callLog>>

\* One iteration of the loop of LayerGraph::bprop: _costs[i]->bprop().
GraphBpropCost ==
  /\ Running("LayerGraph::bprop")
  /\ Top.i <= Len(costs)
  /\ stack' = Append(Advance, Frame("bprop()", costs[Top.i], 0))
  /\ UNCHANGED <<decls, built, layers, dataLayers, costs, rcvdF, rcvdB,
                 actGrads, saveBwdActs, data, event, fpropLog, seedLog,
                 bpropLog, callLog>>

\* The end of LayerGraph::bprop: reset, return.
GraphBpropReturn ==
  /\ Running("LayerGraph::bprop")
  /\ Top.i > Len(costs)
  /\ LET c == Reset([f |-> rcvdF, b |-> rcvdB])
     IN rcvdF' = c.f /\ rcvdB' = c.b
  /\ fpropLog' = NoLog /\ seedLog' = NoLog /\ bpropLog' = NoLog
  /\ callLog' = NoLog
  /\ stack' = Pop
  /\ event' = "bprop returned"
  /\ UNCHANGED <<decls, built, layers, dataLayers, costs, actGrads,
                 saveBwdActs, data>>

\* LogregCost::bprop: the gradient for the probabilities _prev[1] when the
\* coefficient is not zero, then _prev[1]->bprop().
LogregCostBprop ==
  /\ Running("bprop()")
  /\ layers[Top.layer].type = "cost.logreg"
  /\ LET l == Top.layer
         p == layers[l].prev[2]
     IN /\ actGrads' = IF layers[l].coeff # 0 THEN Written(actGrads, l, 2)
                       ELSE actGrads
        /\ callLog' = Append(callLog, [caller |-> l, callee |-> p])
        /\ stack' = Append(Pop, Frame("bprop()", p, l))
  /\ UNCHANGED <<decls, built, layers, dataLayers, costs, rcvdF, rcvdB,
                 saveBwdActs, data, event, fpropLog, seedLog, bpropLog>>

\* DataLayer::bprop: nothing.
DataLayerBprop ==
  /\ Running("bprop()")
  /\ layers[Top.layer].type = "data"
  /\ stack' = Pop
  /\ UNCHANGED <<decls, built, layers, dataLayers, costs, rcvdF, rcvdB,
                 actGrads, saveBwdActs, data, event, fpropLog, seedLog,
                 bpropLog, callLog>>

\* Layer::bprop(NVMatrix&) called from outside on a cost layer: it reaches
\* Cost::_bprop, which throws.
CostBpropThrow ==
  /\ Idle
  /\ costs # <<>>
  /\ event # "thrown"
  /\ event' = "thrown"
  /\ UNCHANGED <<decls, built, layers, dataLayers, costs, rcvdF, rcvdB,
                 actGrads, saveBwdActs, data, stack, fpropLog, seedLog,
                 bpropLog, callLog>>

Counted == {"fc", "conv", "softmax", "pool"}

\* Layer::bprop() on a layer that still waits for a successor: it counts
\* the call and returns.
LayerBpropWait ==
  /\ Running("bprop()")
  /\ layers[Top.layer].type \in Counted
  /\ ~BpropReady(rcvdB[Top.layer] + 1, Top.layer)
  /\ rcvdB' = [rcvdB EXCEPT ![Top.layer] = @ + 1]
  /\ stack' = Pop
  /\ UNCHANGED <<decls, built, layers, dataLayers, costs, rcvdF, actGrads,
                 saveBwdActs, data, event, fpropLog, seedLog, bpropLog,
                 callLog>>

\* What Layer::bprop() does of every counted layer when the count is
\* reached: bprop(_actGrads), logged with the buffer it is handed.
Invoke(l) ==
  /\ Running("bprop()")
  /\ Top.layer = l
  /\ BpropReady(rcvdB[l] + 1, l)
  /\ rcvdB' = [rcvdB EXCEPT ![l] = @ + 1]
  /\ bpropLog' = Append(bpropLog,
                        [layer |-> l, grads |-> actGrads[l]])

\* Layer::bprop() reaching FCLayer::_bprop: computeInputGrads and the bias
\* gradient, then the loop over the inputs.
FCLayerBprop ==
  /\ Running("bprop()")
  /\ layers[Top.layer].type = "fc"
  /\ Invoke(Top.layer)
  /\ actGrads' = [actGrads EXCEPT
                    ![Top.layer] = SetToBag({Term(Top.layer, 0, 0)})]
  /\ stack' = Append(Pop, Frame("FCLayer::_bprop", Top.layer, 1))
  /\ UNCHANGED <<decls, built, layers, dataLayers, costs, rcvdF, saveBwdActs,
                 data, event, fpropLog, seedLog, callLog>>

\* One iteration of the loop of FCLayer::_bprop: the gradient for input i
\* if that layer propagates gradient, the weight increment, _prev[i]->bprop().
FCLayerBpropInput ==
  /\ Running("FCLayer::_bprop")
  /\ Top.i <= Len(layers[Top.layer].prev)
  /\ LET l == Top.layer
         p == layers[l].prev[Top.i]
     IN /\ actGrads' = IF layers[p].propagateGrad
                       THEN Written(actGrads, l, Top.i) ELSE actGrads
        /\ stack' = Append(Advance, Frame("bprop()", p, l))
  /\ UNCHANGED <<decls, built, layers, dataLayers, costs, rcvdF, rcvdB,
                 saveBwdActs, data, event, fpropLog, seedLog, bpropLog,
                 callLog>>

\* The end of FCLayer::_bprop: truncActGrads.
FCLayerBpropReturn ==
  /\ Running("FCLayer::_bprop")
  /\ Top.i > Len(layers[Top.layer].prev)
  /\ actGrads' = [actGrads EXCEPT ![Top.layer] = TruncActGrads(@)]
  /\ stack' = Pop
  /\ UNCHANGED <<decls, built, layers, dataLayers, costs, rcvdF, rcvdB,
                 saveBwdActs, data, event, fpropLog, seedLog, bpropLog,
                 callLog>>

\* Layer::bprop() reaching ConvLayer::_bprop: computeInputGrads, the
\* gradient for the input if it propagates gradient, the weight gradient,
\* truncActGrads, _prev[0]->bprop().
ConvLayerBprop ==
  /\ Running("bprop()")
  /\ layers[Top.layer].type = "conv"
  /\ Invoke(Top.layer)
  /\ LET l == Top.layer
         p == layers[l].prev[1]
         local == [actGrads EXCEPT ![l] = SetToBag({Term(l, 0, 0)})]
         sent == IF layers[p].propagateGrad THEN Written(local, l, 1)
                 ELSE local
     IN /\ actGrads' = [sent EXCEPT ![l] = TruncActGrads(@)]
        /\ stack' = Append(Pop, Frame("bprop()", p, l))
  /\ UNCHANGED <<decls, built, layers, dataLayers, costs, rcvdF, saveBwdActs,
                 data, event, fpropLog, seedLog, callLog>>

\* SoftmaxLayer::_bprop and PoolLayer::_bprop, which have one shape: if the
\* input propagates gradient, its gradient, truncActGrads and
\* _prev[0]->bprop(); else nothing.
GradThrough(l) ==
  LET p == layers[l].prev[1]
  IN IF layers[p].propagateGrad
     THEN /\ actGrads' = [Written(actGrads, l, 1) EXCEPT
                            ![l] = TruncActGrads(@)]
          /\ stack' = Append(Pop, Frame("bprop()", p, l))
     ELSE /\ actGrads' = actGrads
          /\ stack' = Pop

\* Layer::bprop() reaching SoftmaxLayer::_bprop.
SoftmaxLayerBprop ==
  /\ Running("bprop()")
  /\ layers[Top.layer].type = "softmax"
  /\ Invoke(Top.layer)
  /\ GradThrough(Top.layer)
  /\ UNCHANGED <<decls, built, layers, dataLayers, costs, rcvdF, saveBwdActs,
                 data, event, fpropLog, seedLog, callLog>>

\* Layer::bprop() reaching PoolLayer::_bprop.
PoolLayerBprop ==
  /\ Running("bprop()")
  /\ layers[Top.layer].type = "pool"
  /\ Invoke(Top.layer)
  /\ GradThrough(Top.layer)
  /\ UNCHANGED <<decls, built, layers, dataLayers, costs, rcvdF, saveBwdActs,
                 data, event, fpropLog, seedLog, callLog>>

\* The layer graph alone: its steps leave the numbers as they are.
Next ==
  \/ Declare /\ UNCHANGED gc
  \/ Construct /\ UNCHANGED gc
  \/ ConstructThrow /\ UNCHANGED gc
  \/ \E b \in BOOLEAN : SetSaveBwdActs(b) /\ UNCHANGED gc
  \/ \E n \in DataSizes : GraphFprop(n) /\ UNCHANGED gc
  \/ DataLayerFprop /\ UNCHANGED gc
  \/ GraphFpropReturn /\ UNCHANGED gc
  \/ LayerFprop /\ UNCHANGED gc
  \/ DataLayerFpropThrow /\ UNCHANGED gc
  \/ FpropNextReturn /\ UNCHANGED gc
  \/ GraphBprop /\ UNCHANGED gc
  \/ GraphBpropCost /\ UNCHANGED gc
  \/ GraphBpropReturn /\ UNCHANGED gc
  \/ LogregCostBprop /\ UNCHANGED gc
  \/ CostBpropThrow /\ UNCHANGED gc
  \/ DataLayerBprop /\ UNCHANGED gc
  \/ LayerBpropWait /\ UNCHANGED gc
  \/ FCLayerBprop /\ UNCHANGED gc
  \/ FCLayerBpropInput /\ UNCHANGED gc
  \/ FCLayerBpropReturn /\ UNCHANGED gc
  \/ ConvLayerBprop /\ UNCHANGED gc
  \/ SoftmaxLayerBprop /\ UNCHANGED gc
  \/ PoolLayerBprop /\ UNCHANGED gc

Spec == Init /\ [][Next]_vars

(***************************************************************************)
(* The numbers.  A scalar is an integer: weights and epsilons count        *)
(* hundredths, a matrix is the sequence of its scalars in the order the    *)
(* loops of checkGradientsW visit them.                                    *)
(***************************************************************************)
RECURSIVE SumSeq(_)
SumSeq(m) == IF m = <<>> THEN 0 ELSE m[1] + SumSeq(Tail(m))

\* LayerGraph::getNumCases() of the datasets used.
NumCases == 2

\* The Weights containers a layer hands to checkGradientsW, in the order of
\* its checkGradients: FCLayer one per input and its biases, ConvLayer its
\* weights and its biases, any other layer none.
NumContainers(l) ==
  CASE layers[l].type = "fc" -> Len(layers[l].prev) + 1
    [] layers[l].type = "conv" -> 2
    [] OTHER -> 0

\* The eps each checkGradients passes: 0.1 and 0.01 in FCLayer, 0.01 and
\* 0.02 in ConvLayer.
EpsOf(l, c) ==
  CASE layers[l].type = "fc" -> IF c <= Len(layers[l].prev) THEN 10 ELSE 1
    [] layers[l].type = "conv" -> IF c = 1 THEN 1 ELSE 2

\* A slip: every error component counts.
GetCostAllComponents(errs) ==
  LET RECURSIVE Sum(_)
      Sum(k) == IF k > Len(costs) THEN 0
                ELSE layers[costs[k]].coeff * SumSeq(errs[costs[k]]) + Sum(k + 1)
  IN Sum(1)

\* ErrorResult::getCost on ErrorResult(_costs): for each cost its
\* coefficient times the first component of its error.
GetCost(errs) ==
  LET RECURSIVE Sum(_)
      Sum(k) == IF k > Len(costs) THEN 0
                ELSE layers[costs[k]].coeff * errs[costs[k]][1] + Sum(k + 1)
  IN Sum(1)

\* LayerGraph::getCostFunctionValue: getError() copies every cost's _err
\* (Cost::getError), getCost() combines them.
GetCostFunctionValue == GetCost([l \in 1..NumLayers |-> err[l]])

\* NVMatrix::addProduct(a, b, scaleThis, scaleAB) on a target holding this,
\* with ab the product of a and b.
AddProduct(this, ab, scaleThis, scaleAB) ==
  [k \in 1..Len(this) |-> scaleThis * this[k] + scaleAB * ab[k]]

\* The momentum and the learning rate of the weights of an FCLayer.
Mom == 3
EpsW == 4

\* A slip: the momentum is applied in checking mode too.
ScaleThisAlways(checking) == Mom

\* FCLayer::_bprop: (!isCheckingGrads()) * getMom().
ScaleThis(checking) == (IF checking THEN 0 ELSE 1) * Mom

\* FCLayer::_bprop: isCheckingGrads() ? 1 : getEps() / getNumCases().
ScaleAB(checking) == IF checking THEN 1 ELSE EpsW \div NumCases

\* convWeightActs with a partialSum: one partial sum per chunk of
\* partialSum modules, from the per-module terms of one weight.
ConvWeightActsChunked(terms, ps) ==
  [c \in 1..(Len(terms) \div ps) |->
     SumSeq(SubSeq(terms, (c - 1) * ps + 1, c * ps))]

\* A slip: the first row of the reshaped partial sums, not their sum.
ConvWeightGradsFirstRow(terms, ps) ==
  IF ps > 0 /\ ps < Len(terms) THEN ConvWeightActsChunked(terms, ps)[1]
  ELSE SumSeq(terms)

\* ConvLayer::_bprop, the gradient of one weight: with 0 < _partialSum <
\* _modules the chunks' partial sums, reshaped to one row per chunk and
\* summed over the rows; else convWeightActs over all modules at once.
ConvWeightGrads(terms, ps) ==
  IF ps > 0 /\ ps < Len(terms) THEN SumSeq(ConvWeightActsChunked(terms, ps))
  ELSE SumSeq(terms)

\* Matrix::scale.
Scale(m, num, den) == [k \in 1..Len(m) |-> (num * m[k]) \div den]

\* The square of Matrix::norm.
SumSq(m) == SumSeq([k \in 1..Len(m) |-> m[k] * m[k]])

IsSquare(n) == \E r \in 0..n : r * r = n

\* 1 / GC_REL_ERR_THRESH.
GC_REL_ERR_THRESH_INV == 50

\* The values "diff.norm() / analNorm >= GC_REL_ERR_THRESH" can take when the
\* squares of the two norms are d and a.  The quotient is a float: infinite
\* for x/0, not a number for 0/0 (no comparison holds of it); a quotient of
\* exactly 1/50 is rounded to the float next to 0.02, which is below the
\* double 0.02 it is compared with; when a norm is no whole number the
\* rounding of the square root decides.
FailOutcomes(d, a) ==
  LET t2 == GC_REL_ERR_THRESH_INV * GC_REL_ERR_THRESH_INV
  IN IF a = 0 THEN {d > 0}
     ELSE IF d > a \div t2 THEN {TRUE}
     ELSE IF d < a \div t2 \/ a % t2 # 0 THEN {FALSE}
     ELSE IF IsSquare(d) /\ IsSquare(a) THEN {FALSE}
     ELSE BOOLEAN

(***************************************************************************)
(* Gradient checking, on graphs that are built.                            *)
(***************************************************************************)
\* A cost of coefficient 1 and a cost of coefficient 2 on one layer.
TwoCostNet ==
  <<Decl("data", <<>>, 0), Decl("fc", <<1>>, 0),
    Decl("cost.logreg", <<1, 2>>, 1), Decl("cost.logreg", <<1, 2>>, 2)>>

\* An fc layer of two inputs.
TwoInputNet ==
  <<Decl("data", <<>>, 0), Decl("data", <<>>, 0), Decl("fc", <<1, 2>>, 0),
    Decl("cost.logreg", <<1, 3>>, 1)>>

\* A data layer declared as successor of another layer: its forward pass
\* ends in the throw of DataLayer::fprop().
DataSuccessorNet ==
  <<Decl("data", <<>>, 0), Decl("fc", <<1>>, 0), Decl("data", <<2>>, 0),
    Decl("cost.logreg", <<1, 2>>, 1)>>

CheckNets == {ConvNet, TwoCostNet, TwoInputNet, DataSuccessorNet}

\* The values of ConvLayer::_partialSum that divide the four modules of the
\* convolution or take the other path.
PartialSums == {0, 1, 2, 4, 5}

\* What the kernels can put into a cost's _err, into the bias gradient, into
\* the product of activations and gradient, and into the per-module terms
\* of the two weights of a convolution.
ErrVectors == {<<0, 3>>, <<1000, 0>>, <<1020, 3>>}
BiasGrads == {<<0>>, <<-100>>}
Products == {<<0, 0>>, <<-100, 0>>}
ConvTerms == {<<<<0, 0, 0, 0>>, <<-25, -25, -25, -25>>>>,
              <<<<-100, 0, 0, 0>>, <<0, -40, -60, 0>>>>}

\* The increments a training pass starts from.
MaxInc == 100

IsBiases(l, c) == c = NumContainers(l)

\* The containers as the layers' constructors initialize them.
InitWeights ==
  [l \in 1..NumLayers |->
     [c \in 1..NumContainers(l) |->
        IF IsBiases(l, c) THEN [W |-> <<5>>, grads |-> <<0>>]
        ELSE [W |-> <<3, 4>>, grads |-> <<0, 0>>]]]

CheckInit ==
  /\ NoCheck
  /\ decls \in CheckNets
  /\ built = "yes"
  /\ layers = BuildLayers(decls)
  /\ dataLayers = Collect(decls, "data", 1)
  /\ costs = Collect(decls, "cost.logreg", 1)
  /\ rcvdF = [i \in 1..Len(decls) |-> 0]
  /\ rcvdB = [i \in 1..Len(decls) |-> 0]
  /\ actGrads = [i \in 1..Len(decls) |-> EmptyBag]
  /\ saveBwdActs = FALSE
  /\ data = -1
  /\ stack = <<>>
  /\ event = "constructed"
  /\ fpropLog = NoLog /\ seedLog = NoLog /\ bpropLog = NoLog
  /\ callLog = NoLog
  /\ err = [i \in 1..Len(decls) |-> <<>>]
  /\ weights = InitWeights
  /\ partialSum \in IF \E i \in 1..Len(decls) : decls[i].type = "conv"
                     THEN PartialSums ELSE {0}

graph == <<decls, built, layers, dataLayers, costs, saveBwdActs>>
\* No numeric computation in the step.
NoSeen == [kind |-> "none"]

\* A step of the graph that touches no number.
Quiet ==
  /\ seen' = NoSeen
  /\ UNCHANGED <<checkingGrads, numTests, numFailures, baseErr, err, weights,
                 partialSum, numGrads, weightsCPU, checkLog>>

session == <<checkingGrads, numTests, numFailures, baseErr, numGrads,
             weightsCPU, checkLog>>

\* LayerFprop, with what LogregCost::_fprop leaves in _err when the layer
\* computed is a cost.
LayerFpropErr ==
  /\ LayerFprop
  /\ IF /\ Len(fpropLog') > Len(fpropLog)
        /\ layers[fpropLog'[Len(fpropLog')]].type = "cost.logreg"
     THEN \E v \in ErrVectors :
            err' = [err EXCEPT ![fpropLog'[Len(fpropLog')]] = v]
     ELSE err' = err
  /\ seen' = NoSeen
  /\ UNCHANGED <<session, weights, partialSum>>

\* FCLayerBprop, with v.sum(0, _biases.getGrads()).
FCLayerBpropBiases ==
  /\ FCLayerBprop
  /\ \E g \in BiasGrads :
       weights' = [weights EXCEPT
                     ![Top.layer][NumContainers(Top.layer)].grads = g]
  /\ seen' = NoSeen
  /\ UNCHANGED <<session, err, partialSum>>

\* FCLayerBpropInput, with the addProduct into _weights[i].getInc(), which
\* is what getGrads() of these weights returns.
FCLayerBpropInc ==
  /\ FCLayerBpropInput
  /\ \E ab \in Products :
       LET old == weights[Top.layer][Top.i].grads
           new == AddProduct(old, ab, ScaleThis(checkingGrads),
                             ScaleAB(checkingGrads))
       IN /\ weights' = [weights EXCEPT ![Top.layer][Top.i].grads = new]
          /\ seen' = [kind |-> "inc", checking |-> checkingGrads,
                      before |-> old, ab |-> ab, after |-> new]
  /\ UNCHANGED <<session, err, partialSum>>

\* ConvLayerBprop, with v.sum(1, _biases.getGrads()) and the weight
\* gradient.
ConvLayerBpropGrads ==
  /\ ConvLayerBprop
  /\ \E g \in BiasGrads, terms \in ConvTerms :
       LET new == [k \in 1..2 |-> ConvWeightGrads(terms[k], partialSum)]
       IN /\ weights' = [weights EXCEPT ![Top.layer][1].grads = new,
                                        ![Top.layer][2].grads = g]
          /\ seen' = [kind |-> "conv", terms |-> terms, after |-> new]
  /\ UNCHANGED <<session, err, partialSum>>

Step(w, l) == [what |-> w, layer |-> l]

\* The call of LayerGraph::fprop(Data&) from a function whose frames are
\* below, down to its loop: setData, reset.
CallFprop(below, n) ==
  /\ data' = n
  /\ LET c == Reset([f |-> rcvdF, b |-> rcvdB])
     IN rcvdF' = c.f /\ rcvdB' = c.b
  /\ fpropLog' = NoLog /\ seedLog' = NoLog /\ bpropLog' = NoLog
  /\ callLog' = NoLog
  /\ stack' = Append(below, Frame("LayerGraph::fprop", 0, 1))
  /\ event' = "fprop seeding"

\* LayerGraph::checkGradients is called with a dataset of one matrix per
\* data layer: the flag, the two counts, fprop(data).
CheckGradients ==
  /\ Idle
  /\ checkingGrads' = TRUE
  /\ numFailures' = 0
  /\ numTests' = 0
  /\ checkLog' = <<Step("enter", 0), Step("fprop", 0)>>
  /\ CallFprop(<<Frame("LayerGraph::checkGradients", 0, 1)>>, Len(dataLayers))
  /\ seen' = NoSeen
  /\ UNCHANGED <<graph, actGrads, baseErr, err, weights, partialSum, numGrads,
                 weightsCPU>>

\* checkGradients after its forward pass: _baseErr, then bprop().
CheckBaseErr ==
  /\ Running("LayerGraph::checkGradients")
  /\ Top.i = 1
  /\ \A l \in 1..NumLayers : BagCardinality(actGrads[l]) <= MaxTerms
  /\ baseErr' = GetCostFunctionValue
  /\ seen' = NoSeen
  /\ checkLog' = checkLog \o <<Step("baseErr", 0), Step("bprop", 0)>>
  /\ actGrads' = [l \in 1..NumLayers |-> Aged(actGrads[l])]
  /\ stack' = Append(Advance, Frame("LayerGraph::bprop", 0, 1))
  /\ event' = "bprop running"
  /\ UNCHANGED <<graph, rcvdF, rcvdB, data, fpropLog, seedLog, bpropLog,
                 callLog, checkingGrads, numTests, numFailures, err, weights,
                 partialSum, numGrads, weightsCPU>>

\* A slip: the loop runs from _layers.end() down.
CheckedLayerBackwards(i) == NumLayers + 2 - i

\* The layer the loop of checkGradients has reached, from _layers.begin().
CheckedLayer(i) == i - 1

\* One iteration of the loop of checkGradients over _layers.
CheckLayer ==
  /\ Running("LayerGraph::checkGradients")
  /\ Top.i >= 2 /\ Top.i <= NumLayers + 1
  /\ checkLog' = Append(checkLog, Step("check", CheckedLayer(Top.i)))
  /\ stack' = Append(Advance, Frame("checkGradients", CheckedLayer(Top.i), 1))
  /\ seen' = NoSeen
  /\ UNCHANGED <<graph, rcvdF, rcvdB, actGrads, data, event, fpropLog,
                 seedLog, bpropLog, callLog, checkingGrads, numTests,
                 numFailures, baseErr, err, weights, partialSum, numGrads,
                 weightsCPU>>

\* A layer's checkGradients calls checkGradientsW on its next container:
\* numGrads zeroed, the weights copied to the host.
LayerCheckGradients ==
  /\ Running("checkGradients")
  /\ Top.i <= NumContainers(Top.layer)
  /\ numGrads' = [k \in 1..Len(weights[Top.layer][Top.i].W) |-> 0]
  /\ weightsCPU' = weights[Top.layer][Top.i].W
  /\ stack' = Append(stack, Frame("LayerGraph::checkGradientsW", Top.layer, 1))
  /\ seen' = NoSeen
  /\ UNCHANGED <<graph, rcvdF, rcvdB, actGrads, data, event, fpropLog,
                 seedLog, bpropLog, callLog, checkingGrads, numTests,
                 numFailures, baseErr, err, weights, partialSum, checkLog>>

\* A layer's checkGradients returns.
LayerCheckReturn ==
  /\ Running("checkGradients")
  /\ Top.i > NumContainers(Top.layer)
  /\ stack' = Pop
  /\ UNCHANGED <<graph, rcvdF, rcvdB, actGrads, data, event, fpropLog,
                 seedLog, bpropLog, callLog>>
  /\ Quiet

\* The container checkGradientsW runs on: the one its caller has reached.
Checked == stack[Len(stack) - 1].i

\* A slip: the perturbed scalar is left in the host copy.
KeptPerturbed(host, k, eps) == [host EXCEPT ![k] = @ + eps]

\* weightsCPU after "weightsCPU(i,j) = v".
Restored(host, k, eps) == host

\* checkGradientsW, the first half of an iteration: the scalar perturbed in
\* the host copy, the copy sent to the device, the scalar restored in the
\* host copy, fprop().
Perturb ==
  /\ Running("LayerGraph::checkGradientsW")
  /\ Top.i <= 2 * Len(weightsCPU) /\ Top.i % 2 = 1
  /\ LET k == (Top.i + 1) \div 2
         eps == EpsOf(Top.layer, Checked)
         sent == [weightsCPU EXCEPT ![k] = @ + eps]
     IN /\ weights' = [weights EXCEPT ![Top.layer][Checked].W = sent]
        /\ weightsCPU' = Restored(weightsCPU, k, eps)
  /\ CallFprop(Advance, data)
  /\ seen' = NoSeen
  /\ UNCHANGED <<graph, actGrads, checkingGrads, numTests, numFailures,
                 baseErr, err, partialSum, numGrads, checkLog>>

\* The second half: the cost, the numeric gradient of the scalar, the host
\* copy sent to the device.
Measure ==
  /\ Running("LayerGraph::checkGradientsW")
  /\ Top.i <= 2 * Len(weightsCPU) /\ Top.i % 2 = 0
  /\ LET k == Top.i \div 2
         eps == EpsOf(Top.layer, Checked)
     IN numGrads' = [numGrads EXCEPT
                       ![k] = (GetCostFunctionValue - baseErr) \div (NumCases * eps)]
  /\ weights' = [weights EXCEPT ![Top.layer][Checked].W = weightsCPU]
  /\ stack' = Advance
  /\ seen' = NoSeen
  /\ UNCHANGED <<graph, rcvdF, rcvdB, actGrads, data, event, fpropLog,
                 seedLog, bpropLog, callLog, checkingGrads, numTests,
                 numFailures, baseErr, err, partialSum, weightsCPU, checkLog>>

\* A slip: every test counts as a failure.
CountEveryTest(fail) == 1

\* "_numFailures += fail": the bool as an int.
CountFailure(fail) == IF fail THEN 1 ELSE 0

\* The end of checkGradientsW: getGrads() scaled in place and copied, the
\* norms, the test, the two counts; the caller moves to its next container.
Compare ==
  /\ Running("LayerGraph::checkGradientsW")
  /\ Top.i > 2 * Len(weightsCPU)
  /\ LET gradsCPU == Scale(weights[Top.layer][Checked].grads, -1, NumCases)
         diff == [k \in 1..Len(numGrads) |-> numGrads[k] - gradsCPU[k]]
     IN /\ weights' = [weights EXCEPT ![Top.layer][Checked].grads = gradsCPU]
        /\ \E fail \in FailOutcomes(SumSq(diff), SumSq(gradsCPU)) :
             /\ numTests' = numTests + 1
             /\ numFailures' = numFailures + CountFailure(fail)
             /\ seen' = [kind |-> "relErr", layer |-> Top.layer,
                         container |-> Checked, numeric |-> numGrads,
                         analytic |-> gradsCPU, fail |-> fail]
  /\ numGrads' = <<>>
  /\ weightsCPU' = <<>>
  /\ stack' = LET rest == SubSeq(stack, 1, Len(stack) - 2)
                  caller == stack[Len(stack) - 1]
              IN Append(rest, [caller EXCEPT !.i = @ + 1])
  /\ UNCHANGED <<graph, rcvdF, rcvdB, actGrads, data, event, fpropLog,
                 seedLog, bpropLog, callLog, checkingGrads, baseErr, err,
                 partialSum, checkLog>>

\* The end of checkGradients: the report, the flag.
CheckReturn ==
  /\ Running("LayerGraph::checkGradients")
  /\ Top.i > NumLayers + 1
  /\ checkLog' = Append(checkLog, Step("report", 0))
  /\ checkingGrads' = FALSE
  /\ stack' = Pop
  /\ event' = "check returned"
  /\ seen' = NoSeen
  /\ UNCHANGED <<graph, rcvdF, rcvdB, actGrads, data, fpropLog, seedLog,
                 bpropLog, callLog, numTests, numFailures, baseErr, err,
                 weights, partialSum, numGrads, weightsCPU>>

\* A training pass may start while the increments are small.
SmallInc ==
  \A l \in 1..NumLayers : \A c \in 1..NumContainers(l) :
    \A k \in 1..Len(weights[l][c].grads) :
      weights[l][c].grads[k] <= MaxInc /\ weights[l][c].grads[k] >= -MaxInc

CheckNext ==
  \/ CheckGradients
  \/ GraphFprop(Len(dataLayers)) /\ Quiet
  \/ DataLayerFprop /\ Quiet
  \/ GraphFpropReturn /\ Quiet
  \/ LayerFpropErr
  \/ DataLayerFpropThrow /\ Quiet
  \/ FpropNextReturn /\ Quiet
  \/ CheckBaseErr
  \/ GraphBprop /\ SmallInc /\ Quiet
  \/ GraphBpropCost /\ Quiet
  \/ GraphBpropReturn /\ Quiet
  \/ LogregCostBprop /\ Quiet
  \/ DataLayerBprop /\ Quiet
  \/ LayerBpropWait /\ Quiet
  \/ FCLayerBpropBiases
  \/ FCLayerBpropInc
  \/ FCLayerBpropReturn /\ Quiet
  \/ ConvLayerBpropGrads
  \/ SoftmaxLayerBprop /\ Quiet
  \/ PoolLayerBprop /\ Quiet
  \/ CheckLayer
  \/ LayerCheckGradients
  \/ LayerCheckReturn
  \/ Perturb
  \/ Measure
  \/ Compare
  \/ CheckReturn

CheckSpec == CheckInit /\ [][CheckNext]_vars

(***************************************************************************)
(* The claims.                                                             *)
(***************************************************************************)
Count(seq, x) == Cardinality({k \in 1..Len(seq) : seq[k] = x})
Logged(l) == \E k \in 1..Len(fpropLog) : fpropLog[k] = l
Counters0 == rcvdF = Zeros /\ rcvdB = Zeros
DistinctPrevs(l) == {layers[l].prev[j] : j \in 1..Len(layers[l].prev)}

\* C1: a layer that computes through the counted Layer::fprop() does so only
\* after each of its predecessors has run its own _fprop in the same pass.
C1_FanInBarrier ==
  \A k \in 1..Len(fpropLog) :
    layers[fpropLog[k]].type # "data" =>
      \A p \in DistinctPrevs(fpropLog[k]) :
        \E m \in 1..(k - 1) : fpropLog[m] = p

\* A layer with two different predecessors has computed.
C1_Witness ==
  \E k \in 1..Len(fpropLog) :
    /\ layers[fpropLog[k]].type # "data"
    /\ Cardinality(DistinctPrevs(fpropLog[k])) >= 2

\* C2: between two resets no layer runs _fprop twice, and the counter of
\* received inputs never passes the number of predecessors.
C2_ForwardOnce ==
  /\ \A k, m \in 1..Len(fpropLog) : k # m => fpropLog[k] # fpropLog[m]
  /\ \A l \in 1..NumLayers : rcvdF[l] <= Len(layers[l].prev)

\* A forward pass has returned in which a layer counted two inputs.
C2_Witness ==
  /\ event = "fprop returned"
  /\ \E l \in 1..NumLayers : Logged(l) /\ rcvdF[l] >= 2

\* C3: when LayerGraph::fprop has returned, every layer has received as
\* many inputs as it has predecessors.
C3_NoLayerSkipped ==
  event = "fprop returned" =>
    \A l \in 1..NumLayers : rcvdF[l] = Len(layers[l].prev)

\* C4 as claimed: the successor list of B holds A exactly once for every
\* declared edge, and nothing else.
C4_SuccessorOnce ==
  built = "yes" =>
    \A a, b \in 1..NumLayers :
      Count(layers[b].next, a) = (IF Count(decls[a].inputs, b) > 0 THEN 1 ELSE 0)

\* C4 as amended: the successor list of B holds A as many times as the
\* declaration of A names B as an input, and nothing else.
C4_SuccessorsInverse ==
  built = "yes" =>
    \A a, b \in 1..NumLayers :
      Count(layers[b].next, a) = Count(decls[a].inputs, b)

\* A graph is built in which one layer is declared twice as input of another
\* and a layer has two different successors.
C4_Witness ==
  /\ built = "yes"
  /\ \E a, b \in 1..NumLayers : Count(decls[a].inputs, b) = 2
  /\ \E b \in 1..NumLayers :
       Cardinality({layers[b].next[k] : k \in 1..Len(layers[b].next)}) >= 2

\* The inputs (s, j) through which layer x is handed a gradient term: any
\* input of a layer that computes gradients, the probabilities input of a
\* cost whose coefficient is not zero.
Contributions(x) ==
  {sj \in (1..NumLayers) \X (1..MaxInputs) :
     /\ sj[2] <= Len(layers[sj[1]].prev)
     /\ layers[sj[1]].prev[sj[2]] = x
     /\ \/ layers[sj[1]].type \in Counted
        \/ layers[sj[1]].type = "cost.logreg" /\ layers[sj[1]].coeff # 0
             /\ sj[2] = 2}

\* The sum of this pass's terms of all of them.
SumOfContributions(x) == SetToBag({Term(sj[1], sj[2], 0) : sj \in Contributions(x)})

\* C5: a layer with two contributing successors is handed, when its _bprop
\* is invoked, exactly the sum of their two terms.
C5_SumOfBoth ==
  \A k \in 1..Len(bpropLog) :
    Cardinality({sj[1] : sj \in Contributions(bpropLog[k].layer)}) = 2 =>
      bpropLog[k].grads = SumOfContributions(bpropLog[k].layer)

\* C6: between two resets no layer's _bprop is invoked twice.
C6_BackwardOnce ==
  \A k, m \in 1..Len(bpropLog) : k # m => bpropLog[k].layer # bpropLog[m].layer

\* A layer's _bprop has been invoked and bprop() was called on it again.
C6_Witness ==
  \E k \in 1..Len(bpropLog) :
    rcvdB[bpropLog[k].layer] > layers[bpropLog[k].layer].numGradProducersNext

\* C7: when a layer's _bprop is invoked, its buffer holds this pass's term of
\* every gradient-producing successor.
C7_NoMissingContribution ==
  \A k \in 1..Len(bpropLog) :
    \A s \in 1..NumLayers :
      (/\ bpropLog[k].layer \in DistinctPrevs(s)
       /\ layers[s].gradProducer)
        => \E j \in 1..Len(layers[s].prev) :
             /\ layers[s].prev[j] = bpropLog[k].layer
             /\ Term(s, j, 0) \in DOMAIN bpropLog[k].grads

\* C8: a logreg cost whose coefficient is zero calls bprop() on no
\* predecessor.
C8_ZeroCoeffPropagatesNothing ==
  \A k \in 1..Len(callLog) : layers[callLog[k].caller].coeff # 0

\* C9: when LayerGraph::fprop has returned, it has entered every data layer
\* once, in declared order.
C9_EveryDataLayerEntered ==
  event = "fprop returned" => seedLog = dataLayers

\* C10: both counters of every layer are zero after construction, when
\* LayerGraph::fprop is about to seed the first data layer, and when
\* LayerGraph::bprop has returned.
C10_CleanBoundaries ==
  (\/ event = "constructed"
   \/ event = "bprop returned"
   \/ stack = <<Frame("LayerGraph::fprop", 0, 1)>>) => Counters0

\* LayerGraph::bprop has returned from a pass that wrote gradients.
C10_Witness ==
  /\ event = "bprop returned"
  /\ \E l \in 1..NumLayers : actGrads[l] # EmptyBag

C12_MisuseThrows ==
  [][/\ (built = "yes" /\ event' = "thrown") =>
          (rcvdF' = rcvdF /\ rcvdB' = rcvdB /\ actGrads' = actGrads)
     /\ \A k \in 1..Len(dataLayers') :
          Count(fpropLog', dataLayers'[k]) = Count(seedLog', dataLayers'[k])]_vars

\* DataLayer::fprop() has thrown in the middle of a forward pass.
C12_Witness ==
  /\ built = "yes"
  /\ event = "thrown"
  /\ \E l \in 1..NumLayers : rcvdF[l] > 0

\* C20: with saveBwdActs false, when LayerGraph::bprop is about to return
\* every layer whose _bprop ran in the pass has an empty gradient buffer.
C20_BuffersReleased ==
  (stack = <<Frame("LayerGraph::bprop", 0, Len(costs) + 1)>> /\ ~saveBwdActs) =>
    \A k \in 1..Len(bpropLog) : actGrads[bpropLog[k].layer] = EmptyBag

IsPrefix(a, b) == Len(a) <= Len(b) /\ a = SubSeq(b, 1, Len(a))

InCheck == stack # <<>> /\ stack[1].op = "LayerGraph::checkGradients"

ExpectedCheckLog ==
  <<Step("enter", 0), Step("fprop", 0), Step("baseErr", 0), Step("bprop", 0)>>
    \o [l \in 1..NumLayers |-> Step("check", l)]
    \o <<Step("report", 0)>>

\* C13: a gradient-checking session enters checking mode, runs one forward
\* pass, takes the baseline cost, runs one backward pass, runs the self-check
\* of every layer in declaration order and reports, in that order; the graph
\* is in checking mode while the session runs and out of it when the session
\* has returned.
C13_CheckOrder ==
  /\ IsPrefix(checkLog, ExpectedCheckLog)
  /\ InCheck => checkingGrads
  /\ Running("LayerGraph::checkGradients") =>
       /\ (Len(checkLog) = 2 => Top.i = 1 /\ event = "fprop returned")
       /\ (Len(checkLog) = 4 => Top.i = 2 /\ event = "bprop returned")
  /\ event = "check returned" =>
       ~checkingGrads /\ checkLog = ExpectedCheckLog

C13_Witness ==
  event = "check returned" /\ decls = ConvNet /\ numTests = 4

\* checkGradientsW is running, called by a layer's checkGradients.
CheckingW == Len(stack) >= 3 /\ stack[3].op = "LayerGraph::checkGradientsW"

\* A matrix with one scalar moved by eps.
PerturbedAt(W, k, eps) == [W EXCEPT ![k] = @ + eps]

\* C14: while checkGradientsW measures the k-th scalar of a container, the
\* weights on the device are the weights the call started with except for
\* that one scalar, which is larger by epsilon; at every other moment, and so
\* when checkGradientsW has returned, every weight matrix is exactly what it
\* was before the call.
C14_PerturbAndRestore ==
  \A l \in 1..NumLayers : \A c \in 1..NumContainers(l) :
    IF /\ CheckingW /\ stack[3].i % 2 = 0
       /\ stack[3].layer = l /\ stack[2].i = c
    THEN weights[l][c].W =
           PerturbedAt(InitWeights[l][c].W, stack[3].i \div 2, EpsOf(l, c))
    ELSE weights[l][c].W = InitWeights[l][c].W

C14_Witness ==
  /\ seen.kind = "relErr"
  /\ Len(seen.numeric) = 2 /\ seen.numeric[2] # 0
  /\ \A l \in 1..NumLayers : \A c \in 1..NumContainers(l) :
       weights[l][c].W = InitWeights[l][c].W

\* The calls of checkGradientsW made by the layers before layer l.
TestsBefore(l) == SumSeq([k \in 1..(l - 1) |-> NumContainers(k)])

\* The calls of checkGradientsW that have returned in the running session.
TestsDone ==
  IF Len(stack) >= 2 /\ stack[2].op = "checkGradients"
  THEN TestsBefore(stack[2].layer) + stack[2].i - 1
  ELSE IF stack[1].i <= 2 THEN 0 ELSE TestsBefore(stack[1].i - 1)

\* C15: a failed test does not end the session; the number of tests is the
\* number of calls of checkGradientsW that have returned in the session and
\* the number of failures is the number of them that failed, so that
\* 0 <= failures <= tests; both are counted from zero in every session.
C15_Counts ==
  /\ [](/\ numFailures >= 0 /\ numFailures <= numTests
        /\ InCheck => numTests = TestsDone
        /\ event = "check returned" => numTests = TestsBefore(NumLayers + 1))
  /\ [][/\ seen'.kind = "relErr" =>
             /\ numTests' = numTests + 1
             /\ numFailures' = numFailures + (IF seen'.fail THEN 1 ELSE 0)
        /\ seen'.kind # "relErr" =>
             \/ numTests' = numTests /\ numFailures' = numFailures
             \/ /\ ~InCheck /\ InCheck'
                /\ numTests' = 0 /\ numFailures' = 0]_vars

C15_Witness ==
  /\ event = "check returned"
  /\ numFailures > 0 /\ numFailures < numTests

\* norm(diff) / norm(analytic) >= 1/50 in exact arithmetic, from the squares
\* d and a > 0 of the two norms.
AtLeastThreshold(d, a) ==
  LET t2 == GC_REL_ERR_THRESH_INV * GC_REL_ERR_THRESH_INV
  IN d >= a \div t2 + (IF a % t2 = 0 THEN 0 ELSE 1)

\* C16: checkGradientsW reports failure exactly when the relative error
\* norm(numeric - analytic) / norm(analytic) is at least 0.02; with an
\* analytic gradient of norm zero and a numeric gradient that differs from
\* it, the relative error is infinite and failure is reported.
C16_FailsExactlyFromThreshold ==
  seen.kind = "relErr" =>
    LET d == SumSq([k \in 1..Len(seen.numeric) |->
                      seen.numeric[k] - seen.analytic[k]])
        a == SumSq(seen.analytic)
    IN /\ a > 0 => (seen.fail <=> AtLeastThreshold(d, a))
       /\ (a = 0 /\ d > 0) => seen.fail

\* Over the costs, the coefficient times the first component of the error
\* the cost holds.
FirstComponents ==
  SumSeq([k \in 1..Len(costs) |-> layers[costs[k]].coeff * err[costs[k]][1]])

\* C17: the value checkGradients takes as its baseline from
\* getCostFunctionValue, which is ErrorResult::getCost on the errors of the
\* costs, is the sum over the costs of the coefficient times the first
\* component of the cost's error; no later component contributes.
C17_CostIsFirstComponents ==
  [][(Len(checkLog) = 2 /\ Len(checkLog') = 4) => baseErr' = FirstComponents]_vars

C17_Witness ==
  /\ Len(checkLog) = 4 /\ Running("LayerGraph::bprop")
  /\ Len(costs) = 2
  /\ err[costs[1]] = <<1020, 3>> /\ err[costs[2]] = <<1000, 0>>
  /\ baseErr = 3020

\* C18: when partialSum divides the number of modules, the weight gradient
\* ConvLayer::_bprop leaves is the gradient over all modules at once, on the
\* chunked path (0 < partialSum < modules) as on the other path.
C18_ChunkedEqualsWhole ==
  (seen.kind = "conv" /\ partialSum > 0 /\
    \A k \in 1..Len(seen.terms) : Len(seen.terms[k]) % partialSum = 0) =>
  \A k \in 1..Len(seen.terms) : seen.after[k] = SumSeq(seen.terms[k])

C18_Witness ==
  /\ seen.kind = "conv" /\ partialSum = 2
  /\ seen.terms[2] = <<0, -40, -60, 0>>
  /\ seen.after[2] = -100

\* C19: in checking mode the increment FCLayer::_bprop leaves is the product
\* of the predecessor's activations and the gradient, whatever the increment
\* was; outside checking mode it is the momentum times the increment it was
\* plus learning rate / number of cases times the product.
C19_Increment ==
  seen.kind = "inc" =>
    \A k \in 1..Len(seen.after) :
      seen.after[k] = IF seen.checking THEN seen.ab[k]
                      ELSE Mom * seen.before[k]
                             + (EpsW \div NumCases) * seen.ab[k]

C19_Witness ==
  /\ seen.kind = "inc" /\ seen.checking
  /\ seen.before = <<-200, 0>> /\ seen.after = <<-100, 0>>

\* The layers reached from the layers of S along at most n successor edges.
RECURSIVE Forward(_, _)
Forward(S, n) ==
  IF n = 0 THEN S
  ELSE Forward(S \cup UNION {{layers[x].next[k] :
                                 k \in 1..Len(layers[x].next)} : x \in S},
               n - 1)

\* Some cost with a coefficient that is not zero is reached from layer l.
ReachesCost(l) ==
  \E c \in Forward({l}, NumLayers) :
    layers[c].type = "cost.logreg" /\ layers[c].coeff # 0

\* C21: when LayerGraph::bprop, called after a forward pass that computed
\* every layer, is about to return, every gradient-propagating layer from
\* which a cost with a coefficient that is not zero is reached along
\* successor edges has had its _bprop invoked.
C21_BackwardReach ==
  (/\ stack = <<Frame("LayerGraph::bprop", 0, Len(costs) + 1)>>
   /\ \A l \in 1..NumLayers : Logged(l)) =>
    \A l \in 1..NumLayers :
      (layers[l].type \in Counted /\ ReachesCost(l)) =>
        \E k \in 1..Len(bpropLog) : bpropLog[k].layer = l

\* The analytic gradient checkGradientsW compares with, from the gradient
\* accumulator as it is.
Analytic(l, c) == Scale(weights[l][c].grads, -1, NumCases)

\* C22: when checkGradientsW has returned, the gradient accumulator of the
\* weights it checked still gives the analytic gradient the call compared
\* with, and the verdict of the call is the verdict for the call's numeric
\* gradient and the accumulator as it is: a second call right after it
\* compares with the same gradient and gives the same verdict.
C22_AccumulatorUntouched ==
  seen.kind = "relErr" =>
    LET again == Analytic(seen.layer, seen.container)
        diff == [k \in 1..Len(again) |-> seen.numeric[k] - again[k]]
    IN /\ again = seen.analytic
       /\ seen.fail \in FailOutcomes(SumSq(diff), SumSq(again))

\* C23: the graph is in checking mode only while checkGradients is
\* executing, and only then does FCLayer::_bprop write an increment by the
\* formula of checking mode.
C23_CheckingOnlyInside ==
  /\ checkingGrads => InCheck
  /\ (seen.kind = "inc" /\ seen.checking) => InCheck

====
